---- MODULE Spec2Model ----
(***************************************************************************)
(* Model of pkg/controllers/management/etcdbackup/etcdbackup.go: the etcd *)
(* backup controller (Create / Remove lifecycle hooks of EtcdBackup        *)
(* objects and the periodic clusterBackupSync loop).                       *)
(*                                                                         *)
(* Time is counted in hours (the unit of IntervalHours); the sleeps of the *)
(* backoff loops are counted in seconds in separate counters.              *)
(***************************************************************************)
EXTENDS Integers, Sequences, FiniteSets, TLC

\* ---------------------------------------------------------------- bounds
MaxTime == 2
MaxBackups == 2
MaxCreateTime == 1
MaxCreateBackups == 1

\* ------------------------------------------------------ program constants
BackoffSteps == 5
BackoffDurationSec == 1
BackoffFactor == 2
S3DeleteAttempts == 3
S3DeleteSleepSec == 5

\* time.Since saturates at the largest Duration (about 292 years, in hours)
MaxDurationHours == 2562047

\* the zero time.Time, returned by time.Parse on an empty or malformed string
ZeroTime == 0 - 1000000000

\* LastUpdateTime "" of a condition that does not exist
NoTimestamp == 0 - 1

VARIABLES
    now,        \* wall clock, hours
    clusters,   \* Object Store: cluster name -> cluster object
    backups,    \* Object Store: backup id -> persisted EtcdBackup object
    nextId,     \* number of backup objects created so far (names are unique)
    hook,       \* the Create hook invocation in progress
    sweep,      \* position of the clusterBackupSync goroutine
    cancelled,  \* ctx.Done() is closed
    last        \* what the step just taken returned, if a handler returned in it

vars == <<now, clusters, backups, nextId, hook, sweep, cancelled, last>>

\* ------------------------------------------------------------ data model
Nil == [nil |-> TRUE]

S3Target == [nil |-> FALSE, endpoint |-> "ep", bucket |-> "bk", folder |-> "fd"]

\* v3.BackupConfig values the cluster spec may carry
PolicyLocal ==
    [nil |-> FALSE, enabled |-> "true", intervalHours |-> 1, retention |-> 1,
     safeTimestamp |-> FALSE, s3 |-> Nil]
PolicyS3 ==
    [nil |-> FALSE, enabled |-> "true", intervalHours |-> 2, retention |-> 1,
     safeTimestamp |-> TRUE, s3 |-> S3Target]
PolicyDisabled == [PolicyLocal EXCEPT !.enabled = "false"]
PolicyUnset == [PolicyLocal EXCEPT !.enabled = "unset"]

Policies == {PolicyLocal, PolicyS3, PolicyDisabled, PolicyUnset}

\* the zero value of the BackupConfig struct embedded in EtcdBackupSpec
ZeroConfig ==
    [nil |-> FALSE, enabled |-> "unset", intervalHours |-> 0, retention |-> 0,
     safeTimestamp |-> FALSE, s3 |-> Nil]

\* cluster.Spec.RancherKubernetesEngineConfig: nil, or a config whose
\* Services.Etcd.BackupConfig is nil or a policy
RKEConfigs ==
    {Nil, [nil |-> FALSE, backupConfig |-> Nil]}
        \cup {[nil |-> FALSE, backupConfig |-> p] : p \in Policies}

\* the cluster objects a cluster moves between: an eligible cluster with a
\* local or an S3 policy, and each way of not being eligible
ReadyCluster(rkeConfig) == [rkeConfig |-> rkeConfig, ready |-> TRUE, deleting |-> FALSE]

ClusterObjects ==
    {ReadyCluster(cfg) : cfg \in RKEConfigs}
        \cup {[ReadyCluster([nil |-> FALSE, backupConfig |-> PolicyLocal])
                  EXCEPT !.ready = FALSE],
              [ReadyCluster([nil |-> FALSE, backupConfig |-> PolicyLocal])
                  EXCEPT !.deleting = TRUE]}

\* the cluster objects that differ for the Create hook
CreateClusterObjects ==
    {ReadyCluster(cfg) :
        cfg \in {Nil, [nil |-> FALSE, backupConfig |-> Nil],
                 [nil |-> FALSE, backupConfig |-> PolicyLocal],
                 [nil |-> FALSE, backupConfig |-> PolicyS3]}}

EmptyFilename == [empty |-> TRUE]

SaveErrors == {"e1", "e2"}

isBackupSet(rkeConfig) ==
    rkeConfig # Nil /\ rkeConfig.backupConfig # Nil

isRecurringBackupEnabled(rkeConfig) ==
    isBackupSet(rkeConfig) /\ rkeConfig.backupConfig.enabled = "true"

\* readiness is not looked at
shouldBackupUnready(cluster) ==
    IF cluster.rkeConfig = Nil THEN FALSE
    ELSE IF ~isBackupSet(cluster.rkeConfig) THEN FALSE
    ELSE IF ~isRecurringBackupEnabled(cluster.rkeConfig) THEN FALSE
    ELSE TRUE

shouldBackup(cluster) ==
    IF cluster.rkeConfig = Nil THEN FALSE
    ELSE IF ~isBackupSet(cluster.rkeConfig) THEN FALSE
    ELSE IF ~cluster.ready THEN FALSE
    ELSE IF ~isRecurringBackupEnabled(cluster.rkeConfig) THEN FALSE
    ELSE TRUE

\* one attempt too many
getBackoffSixSteps ==
    [Duration |-> BackoffDurationSec, Factor |-> BackoffFactor, Steps |-> BackoffSteps + 1]

getBackoff ==
    [Duration |-> BackoffDurationSec, Factor |-> BackoffFactor, Steps |-> BackoffSteps]

\* <name>_<RFC3339 time>.zip, ":" replaced by "-" under SafeTimestamp, wrapped
\* into https://<endpoint>/<bucket>[/<folder>]/<filename> for an S3 target
generateBackupFilename(snapshotName, backupConfig) ==
    IF backupConfig = Nil THEN EmptyFilename
    ELSE LET filename ==
                 [empty |-> FALSE, name |-> snapshotName, ts |-> now,
                  sep |-> IF backupConfig.safeTimestamp THEN "-" ELSE ":",
                  ext |-> "zip"]
         IN  IF backupConfig.s3 # Nil
             THEN IF backupConfig.s3.folder # ""
                  THEN filename @@
                       [url |-> <<backupConfig.s3.endpoint, backupConfig.s3.bucket,
                                  backupConfig.s3.folder>>]
                  ELSE filename @@
                       [url |-> <<backupConfig.s3.endpoint, backupConfig.s3.bucket>>]
             ELSE filename @@ [url |-> <<>>]

\* NewBackupObject: no conditions, empty filename, zero BackupConfig.  The
\* name the store generates from the GenerateName prefix is the object's id.
NewBackupObject(clusterName, manual) ==
    [clusterID |-> clusterName,
     manual    |-> manual,
     filename  |-> EmptyFilename,
     backupConfig |-> ZeroConfig,
     created   |-> "",
     completed |-> "",
     completedTS |-> NoTimestamp,
     message   |-> "",
     deleting  |-> FALSE]

\* time.Parse(RFC3339, BackupConditionCompleted.GetLastUpdated(o)), error dropped
getBackupCompletedTime(o) ==
    IF o.completedTS = NoTimestamp THEN ZeroTime ELSE o.completedTS

\* time.Since(t)
Since(t) ==
    IF t = ZeroTime THEN MaxDurationHours ELSE now - t

\* ------------------------------------------------- condition bookkeeping
\* BackupConditionCompleted.<Status>(b): the status is written and
\* LastUpdateTime is touched only when the status changes (a missing
\* condition is created first, which also stamps it)
setCompleted(b, status) ==
    IF b.completed = status THEN b
    ELSE [b EXCEPT !.completed = status, !.completedTS = now]

\* only a succeeded backup counts as terminal
isTerminalTrueOnly(b) == b.completed = "True"

\* BackupConditionCompleted.IsFalse(b) || BackupConditionCompleted.IsTrue(b)
isTerminal(b) == b.completed = "False" \/ b.completed = "True"

\* every invocation names the backup
needsNamingAlways(b) == TRUE

\* !BackupConditionCreated.IsTrue(b)
needsNaming(b) == b.created # "True"

\* the naming step leaves the Created condition as it was
nameBackupWithoutCreated(id, b, cluster) ==
    setCompleted(
        [b EXCEPT !.filename = generateBackupFilename(id, cluster.rkeConfig.backupConfig),
                  !.backupConfig = cluster.rkeConfig.backupConfig],
        "Unknown")

\* the naming step of Create: filename, frozen policy, Created=True,
\* Completed=Unknown
nameBackup(id, b, cluster) ==
    setCompleted(
        [b EXCEPT !.filename = generateBackupFilename(id, cluster.rkeConfig.backupConfig),
                  !.backupConfig = cluster.rkeConfig.backupConfig,
                  !.created = "True"],
        "Unknown")

\* clusterprovisioner.GetBackupFilename(b): the snapshot name the engine is
\* given is derived from the stored filename alone
snapshotNameOf(b) == b.filename

\* ----------------------------------------------------------------- events
\* the step just taken returned from no handler
NoEvent == [op |-> "none"]

\* ------------------------------------------------------------ Create hook
IdleHook ==
    [pc |-> "idle", id |-> 0, b |-> Nil, saves |-> 0, duration |-> 0, slept |-> 0,
     inErr |-> "", saveErr |-> "", updates |-> 0, named |-> FALSE, snapshot |-> Nil]

hookBusy == hook.pc # "idle"

\* backupClient.Update(b): refused when the object is gone or was changed
\* (marked for deletion) since the hook read it, or when the store fails
updateAccepted(id, updOK) ==
    updOK /\ id \in DOMAIN backups /\ ~backups[id].deleting

\* the naming Update's error is dropped
namingUpdateErrorDropped(id, updOK) == FALSE

\* err != nil after the Update that persists the naming step
namingUpdateFailed(id, updOK) == ~updateAccepted(id, updOK)

\* only a cluster that is not an RKE cluster counts as unconfigured
configMissingNonRKE(cluster) == cluster.rkeConfig = Nil

\* !isBackupSet(cluster.Spec.RancherKubernetesEngineConfig)
configMissing(cluster) == ~isBackupSet(cluster.rkeConfig)

\* Create returns ret at the given source line, after h.saves calls of
\* ETCDSave and h.updates calls of Update
createReturned(h, ret, line) ==
    [op |-> "Create", id |-> h.id, ret |-> ret, line |-> line, saves |-> h.saves,
     slept |-> h.slept, inErr |-> h.inErr, updates |-> h.updates, named |-> h.named]

\* Create, from its entry to the call of etcdSaveWithBackoff
Create(id, getOK, updOK) ==
    /\ ~hookBusy
    /\ id \in DOMAIN backups
    /\ ~backups[id].deleting
    /\ LET b == backups[id]
           cluster == clusters[b.clusterID]
           h0 == [IdleHook EXCEPT !.id = id, !.b = b]
           return(h, ret, line) ==
               /\ hook' = IdleHook
               /\ last' = createReturned(h, ret, line)
               /\ UNCHANGED backups
       IN  IF isTerminal(b) THEN return(h0, "nil", 76)
           ELSE IF ~getOK THEN return(h0, "err:get", 81)
           ELSE IF configMissing(cluster) THEN return(h0, "err:noconfig", 85)
           ELSE IF needsNaming(b)
           THEN LET nb == nameBackup(id, b, cluster)
                    h1 == [h0 EXCEPT !.updates = 1, !.named = TRUE]
                    stored == IF updateAccepted(id, updOK)
                              THEN [backups EXCEPT ![id] = nb] ELSE backups
                IN  IF namingUpdateFailed(id, updOK)
                    THEN /\ hook' = IdleHook
                         /\ last' = createReturned(h1, "err:update", 96)
                         /\ backups' = stored
                    ELSE /\ backups' = stored
                         /\ hook' = [h1 EXCEPT !.pc = "save", !.b = nb]
                         /\ last' = NoEvent
           ELSE /\ hook' = [h0 EXCEPT !.pc = "save"]
                /\ last' = NoEvent
                /\ UNCHANGED backups
    /\ UNCHANGED <<now, clusters, nextId, sweep, cancelled>>

\* etcdSaveWithBackoff up to the first attempt: driver lookup, the Do
\* wrapper marking Completed Unknown, the cluster lookup inside it
etcdSaveWithBackoff(driverOK, getOK) ==
    /\ hook.pc = "save"
    /\ IF ~driverOK
       THEN hook' = [hook EXCEPT !.pc = "update", !.saveErr = "err:driver"]
       ELSE LET b1 == IF hook.b.completed # "False"
                      THEN setCompleted(hook.b, "Unknown") ELSE hook.b
            IN  IF ~getOK
                THEN hook' = [hook EXCEPT
                        !.pc = "update",
                        !.b = [setCompleted(b1, "False") EXCEPT !.message = "err:get"],
                        !.saveErr = "err:get"]
                ELSE hook' = [hook EXCEPT
                        !.pc = "backoff", !.b = b1,
                        !.duration = getBackoff.Duration,
                        !.snapshot = snapshotNameOf(b1)]
    /\ last' = NoEvent
    /\ UNCHANGED <<now, clusters, backups, nextId, sweep, cancelled>>

\* a failed save is returned without marking the backup
saveOutcomeKeepsUnknown(b, inErr) ==
    IF inErr # ""
    THEN [b |-> b, err |-> inErr]
    ELSE [b |-> [setCompleted(b, "True") EXCEPT !.message = ""], err |-> ""]

\* the object and the error etcdSaveWithBackoff returns once the backoff
\* loop has ended with inErr
saveOutcome(b, inErr) ==
    IF inErr # ""
    THEN [b |-> [setCompleted(b, "False") EXCEPT !.message = inErr], err |-> inErr]
    ELSE [b |-> [setCompleted(b, "True") EXCEPT !.message = ""], err |-> ""]

\* one iteration of wait.ExponentialBackoff around backupDriver.ETCDSave:
\* sleep (not before the first attempt), call, stop on success or after
\* Steps attempts; then the tail of etcdSaveWithBackoff
ETCDSave(outcome) ==
    /\ hook.pc = "backoff"
    /\ hook.saves < getBackoff.Steps
    /\ LET slept == IF hook.saves = 0 THEN hook.slept ELSE hook.slept + hook.duration
           duration == IF hook.saves = 0 THEN hook.duration
                       ELSE hook.duration * getBackoff.Factor
           saves == hook.saves + 1
           inErr == IF outcome = "ok" THEN "" ELSE outcome
           h1 == [hook EXCEPT !.slept = slept, !.duration = duration, !.saves = saves,
                              !.inErr = inErr]
       IN  IF inErr = "" \/ saves >= getBackoff.Steps
           THEN LET r == saveOutcome(hook.b, inErr)
                IN  hook' = [h1 EXCEPT !.pc = "update", !.b = r.b, !.saveErr = r.err]
           ELSE hook' = h1
    /\ last' = NoEvent
    /\ UNCHANGED <<now, clusters, backups, nextId, sweep, cancelled>>

\* the save error is swallowed
createResultSwallowed(updateFailed, saveErr) ==
    IF updateFailed THEN <<"err:update", 102>> ELSE <<"nil", 108>>

\* the error Create returns after the final Update, and the returning line
createResult(updateFailed, saveErr) ==
    IF updateFailed THEN <<"err:update", 102>>
    ELSE IF saveErr # "" THEN <<"err:save", 106>>
    ELSE <<"nil", 108>>

\* Create, from the Update of the save result to its return
CreateFinish(updOK) ==
    /\ hook.pc = "update"
    /\ LET ok == updateAccepted(hook.id, updOK)
           r == createResult(~ok, hook.saveErr)
       IN  /\ backups' = IF ok THEN [backups EXCEPT ![hook.id] = hook.b] ELSE backups
           /\ hook' = IdleHook
           /\ last' = createReturned([hook EXCEPT !.updates = @ + 1], r[1], r[2])
    /\ UNCHANGED <<now, clusters, nextId, sweep, cancelled>>

\* Updated
Updated(id) ==
    /\ id \in DOMAIN backups
    /\ ~backups[id].deleting
    /\ last' = [op |-> "Updated", id |-> id, ret |-> "nil"]
    /\ UNCHANGED <<now, clusters, backups, nextId, hook, sweep, cancelled>>

\* ----------------------------------------------------------- Remove hook
RECURSIVE backoffLoop(_, _, _, _)
\* wait.ExponentialBackoff(backoff, f) where f fails until its firstOK-th call
\* (never succeeds when firstOK = 0): [calls, slept, timedOut]
backoffLoop(i, duration, slept, firstOK) ==
    IF i >= getBackoff.Steps THEN [calls |-> i, slept |-> slept, timedOut |-> TRUE]
    ELSE LET s == IF i = 0 THEN slept ELSE slept + duration
             d == IF i = 0 THEN duration ELSE duration * getBackoff.Factor
         IN  IF i + 1 = firstOK
             THEN [calls |-> i + 1, slept |-> s, timedOut |-> FALSE]
             ELSE backoffLoop(i + 1, d, s, firstOK)

\* etcdRemoveSnapshotWithBackoff: [calls, slept, err]
etcdRemoveSnapshotWithBackoff(driverOK, getOK, firstOK) ==
    IF ~driverOK THEN [calls |-> 0, slept |-> 0, err |-> "err:driver"]
    ELSE IF ~getOK THEN [calls |-> 0, slept |-> 0, err |-> "err:get"]
    ELSE LET r == backoffLoop(0, getBackoff.Duration, 0, firstOK)
         IN  [calls |-> r.calls, slept |-> r.slept,
              err |-> IF r.timedOut THEN "err:timeout" ELSE ""]

RECURSIVE s3DeleteLoop(_, _, _)
\* for i := 0; i < 3; i++ { if deleteS3Snapshot(b) == nil {break}; Sleep(5s) }
\* where deleteS3Snapshot fails until its firstOK-th call
s3DeleteLoop(i, slept, firstOK) ==
    IF i >= S3DeleteAttempts THEN [calls |-> i, slept |-> slept, delErr |-> i > 0]
    ELSE IF i + 1 = firstOK THEN [calls |-> i + 1, slept |-> slept, delErr |-> FALSE]
    ELSE s3DeleteLoop(i + 1, slept + S3DeleteSleepSec, firstOK)

\* a failed remote delete is returned
removeResultStrict(snapErr, delErr) == IF delErr THEN "err:s3" ELSE "nil"

\* the error Remove returns
removeResult(snapErr, delErr) == "nil"

\* Remove; the object leaves the store when the hook returned no error
Remove(id, driverOK, getOK, snapFirstOK, s3FirstOK) ==
    /\ id \in DOMAIN backups
    /\ backups[id].deleting
    /\ ~(hookBusy /\ hook.id = id)
    /\ LET b == backups[id]
           snap == etcdRemoveSnapshotWithBackoff(driverOK, getOK, snapFirstOK)
           remote == b.backupConfig.s3 # Nil
           s3 == IF remote THEN s3DeleteLoop(0, 0, s3FirstOK)
                 ELSE [calls |-> 0, slept |-> 0, delErr |-> FALSE]
           ret == removeResult(snap.err, s3.delErr)
       IN  /\ ~remote => s3FirstOK = 0
           /\ last' =
                 [op |-> "Remove", id |-> id, snapCalls |-> snap.calls,
                  snapSlept |-> snap.slept, snapErr |-> snap.err, remote |-> remote,
                  s3Calls |-> s3.calls, s3Slept |-> s3.slept, delErr |-> s3.delErr,
                  ret |-> ret]
           /\ backups' = IF ret = "nil"
                         THEN [i \in DOMAIN backups \ {id} |-> backups[i]]
                         ELSE backups
    /\ UNCHANGED <<now, clusters, nextId, hook, sweep, cancelled>>

\* ------------------------------------------------------------ sweep loop
\* manual backups are listed as well
getRecuringBackupsListUnfiltered(clusterName) ==
    {id \in DOMAIN backups : backups[id].clusterID = clusterName}

\* getRecuringBackupsList: the non-manual backups of the cluster's namespace
getRecuringBackupsList(clusterName) ==
    {id \in DOMAIN backups :
        backups[id].clusterID = clusterName /\ ~backups[id].manual}

\* the Completed time of newestBackup after the scan of clusterBackups
newestCompletedTime(clusterBackups) ==
    CHOOSE t \in {getBackupCompletedTime(backups[id]) : id \in clusterBackups} :
        \A id \in clusterBackups : getBackupCompletedTime(backups[id]) <= t

\* due already when the interval has just elapsed
isDueAtInterval(newestTime, intervalHours) == Since(newestTime) >= intervalHours

\* time.Since(getBackupCompletedTime(newestBackup)) > backupIntervalHours
isDue(newestTime, intervalHours) == Since(newestTime) > intervalHours

\* a backup expires as soon as its age reaches the window
getExpiredBackupsAtWindow(retention, intervalHours, clusterBackups) ==
    {id \in clusterBackups :
        Since(getBackupCompletedTime(backups[id])) >= retention * intervalHours}

\* getExpiredBackups
getExpiredBackups(retention, intervalHours, clusterBackups) ==
    {id \in clusterBackups :
        Since(getBackupCompletedTime(backups[id])) > retention * intervalHours}

\* createNewBackup: NewBackupObject(cluster, false) with Created=Unknown
createNewBackup(clusterName) ==
    [NewBackupObject(clusterName, FALSE) EXCEPT !.created = "Unknown"]

\* the loop over the expired backups is never entered
rotateExpiredBackupsNone(expired, delDone) == {}

\* the backups rotateExpiredBackups deletes: every expired one, or those
\* reached before a DeleteNamespaced call failed
rotateExpiredBackups(expired, delDone) ==
    {id \in expired : ~backups[id].manual /\ id \in delDone}

\* what may go wrong in one doClusterBackupSync call: nothing, or one of
\* backupLister.List, backupClient.Create, backupClient.DeleteNamespaced
\* failing with a conflict or with another error
Faults ==
    {[at |-> "none", kind |-> "nil"]}
        \cup {[at |-> a, kind |-> k] :
                a \in {"list", "create", "delete"}, k \in {"err", "conflict"}}

NoFault == [at |-> "none", kind |-> "nil"]

\* the faults that are no conflict
ErrFaults == {f \in Faults : f.kind # "conflict"}

\* doClusterBackupSync returned
syncReturned(name, cluster) ==
    [op |-> "doClusterBackupSync", cluster |-> name, obj |-> cluster,
     skipped |-> FALSE, listed |-> FALSE, clusterBackups |-> {},
     newest |-> ZeroTime, due |-> FALSE,
     createCalls |-> 0, created |-> {}, rotated |-> FALSE, expired |-> {},
     deleted |-> {}, ret |-> "nil"]

\* doClusterBackupSync for a cluster object of the tick's list, under a
\* fault; delDone: the expired backups whose DeleteNamespaced call succeeds
\* before the failing one (the lister's order is not fixed)
doClusterBackupSync(name, cluster, limit, fault, delDone) ==
    LET base == syncReturned(name, cluster)
        clusterBackups == getRecuringBackupsList(name)
        policy == cluster.rkeConfig.backupConfig
        newObj == createNewBackup(name)
        withNew == [i \in DOMAIN backups \cup {nextId + 1} |->
                        IF i = nextId + 1 THEN newObj ELSE backups[i]]
    IN  IF cluster.deleting \/ ~shouldBackup(cluster)
        THEN /\ last' = [base EXCEPT !.skipped = TRUE]
             /\ UNCHANGED <<backups, nextId>>
        ELSE IF fault.at = "list"
        THEN /\ last' = [base EXCEPT !.ret = fault.kind]
             /\ UNCHANGED <<backups, nextId>>
        ELSE IF clusterBackups = {}
        THEN IF fault.at # "create"
             THEN /\ nextId < limit
                  /\ backups' = withNew
                  /\ nextId' = nextId + 1
                  /\ last' = [base EXCEPT !.listed = TRUE, !.due = TRUE,
                                 !.createCalls = 1, !.created = {nextId + 1}]
             ELSE /\ last' = [base EXCEPT !.listed = TRUE, !.due = TRUE,
                                 !.createCalls = 1, !.ret = fault.kind]
                  /\ UNCHANGED <<backups, nextId>>
        ELSE LET due == isDue(newestCompletedTime(clusterBackups), policy.intervalHours)
                 expired == getExpiredBackups(policy.retention, policy.intervalHours,
                                              clusterBackups)
                 deleteFails == fault.at = "delete" /\ expired # {}
                 deleted == rotateExpiredBackups(
                                expired, IF deleteFails THEN delDone ELSE expired)
                 s1 == [base EXCEPT !.listed = TRUE, !.clusterBackups = clusterBackups,
                                    !.newest = newestCompletedTime(clusterBackups),
                                    !.due = due]
                 store == IF due THEN withNew ELSE backups
             IN  IF due /\ fault.at = "create"
                 THEN /\ last' = [s1 EXCEPT !.createCalls = 1, !.ret = fault.kind]
                      /\ UNCHANGED <<backups, nextId>>
                 ELSE /\ due => nextId < limit
                      /\ deleteFails => delDone \subseteq expired /\ delDone # expired
                      /\ backups' = [i \in DOMAIN store |->
                                        IF i \in deleted
                                        THEN [store[i] EXCEPT !.deleting = TRUE]
                                        ELSE store[i]]
                      /\ nextId' = IF due THEN nextId + 1 ELSE nextId
                      /\ last' =
                            [s1 EXCEPT !.createCalls = IF due THEN 1 ELSE 0,
                                       !.created = IF due THEN {nextId + 1} ELSE {},
                                       !.rotated = TRUE, !.expired = expired,
                                       !.deleted = deleted,
                                       !.ret = IF deleteFails THEN fault.kind
                                               ELSE "nil"]

RECURSIVE listOf(_)
\* clusterLister.List: the cluster objects, as cached when the tick fires
listOf(names) ==
    IF names = {} THEN <<>>
    ELSE LET n == CHOOSE x \in names : TRUE
         IN  <<[name |-> n, obj |-> clusters[n]]>> \o listOf(names \ {n})

\* clusterBackupSync returned
sweepReturned(ret) == [op |-> "clusterBackupSync", ret |-> ret]

\* clusterBackupSync: the ticker fires (ctx.Done may be closed as well: select
\* picks either ready case) and the clusters are listed
SweepTick(listOK) ==
    /\ sweep.pc = "waiting"
    /\ IF ~listOK
       THEN /\ sweep' = [pc |-> "exited", rest |-> <<>>]
            /\ last' = sweepReturned("err:list")
       ELSE /\ sweep' = [pc |-> "tick", rest |-> listOf(DOMAIN clusters)]
            /\ last' = NoEvent
    /\ UNCHANGED <<now, clusters, backups, nextId, hook, cancelled>>

\* the loop is left when a cluster's processing fails with an error that is
\* no conflict
loopAfterSyncReturning(rest, ret) ==
    IF ret \notin {"nil", "conflict"}
    THEN [pc |-> "exited", rest |-> <<>>]
    ELSE [pc |-> IF Len(rest) = 1 THEN "waiting" ELSE "tick", rest |-> Tail(rest)]

\* where the loop over the listed clusters stands after doClusterBackupSync
\* returned ret for the head of rest: an error is logged unless it is a
\* conflict, and the loop goes on
loopAfterSync(rest, ret) ==
    [pc |-> IF Len(rest) = 1 THEN "waiting" ELSE "tick", rest |-> Tail(rest)]

\* clusterBackupSync: one iteration of the loop over the listed clusters
SweepCluster(limit, fault, delDone) ==
    /\ sweep.pc = "tick"
    /\ sweep.rest # <<>>
    /\ fault.at # "delete" => delDone = {}
    /\ doClusterBackupSync(Head(sweep.rest).name, Head(sweep.rest).obj, limit,
                           fault, delDone)
    /\ sweep' = loopAfterSync(sweep.rest, last'.ret)
    /\ UNCHANGED <<now, clusters, hook, cancelled>>

\* the cancellation is returned as an error
SweepCancelledWithError ==
    /\ sweep.pc = "waiting"
    /\ cancelled
    /\ sweep' = [pc |-> "exited", rest |-> <<>>]
    /\ last' = sweepReturned("err:cancelled")
    /\ UNCHANGED <<now, clusters, backups, nextId, hook, cancelled>>

\* clusterBackupSync: case <-ctx.Done(): return nil
SweepCancelled ==
    /\ sweep.pc = "waiting"
    /\ cancelled
    /\ sweep' = [pc |-> "exited", rest |-> <<>>]
    /\ last' = sweepReturned("nil")
    /\ UNCHANGED <<now, clusters, backups, nextId, hook, cancelled>>

\* ------------------------------------------------------------ environment
AdvanceClock(limit) ==
    /\ now < limit
    /\ now' = now + 1
    /\ last' = NoEvent
    /\ UNCHANGED <<clusters, backups, nextId, hook, sweep, cancelled>>

\* a user edits the cluster: backup policy, readiness, deletion
EditCluster(c, obj) ==
    /\ c \in DOMAIN clusters
    /\ ~clusters[c].deleting
    /\ obj # clusters[c]
    /\ clusters' = [clusters EXCEPT ![c] = obj]
    /\ last' = NoEvent
    /\ UNCHANGED <<now, backups, nextId, hook, sweep, cancelled>>

\* a user asks for a backup: NewBackupObject(cluster, true)
ManualBackup(c, limit) ==
    /\ c \in DOMAIN clusters
    /\ isBackupSet(clusters[c].rkeConfig)
    /\ nextId < limit
    /\ nextId' = nextId + 1
    /\ backups' = [i \in DOMAIN backups \cup {nextId + 1} |->
                      IF i = nextId + 1
                      THEN [NewBackupObject(c, TRUE) EXCEPT !.created = "Unknown"]
                      ELSE backups[i]]
    /\ last' = NoEvent
    /\ UNCHANGED <<now, clusters, hook, sweep, cancelled>>

\* a user deletes a backup object
UserDelete(id) ==
    /\ id \in DOMAIN backups
    /\ ~backups[id].deleting
    /\ backups' = [backups EXCEPT ![id].deleting = TRUE]
    /\ last' = NoEvent
    /\ UNCHANGED <<now, clusters, nextId, hook, sweep, cancelled>>

\* the context is cancelled
Cancel ==
    /\ ~cancelled
    /\ cancelled' = TRUE
    /\ last' = NoEvent
    /\ UNCHANGED <<now, clusters, backups, nextId, hook, sweep>>

\* the process dies and restarts: what a running hook held in memory is
\* lost, a tick in progress is abandoned
Crash ==
    /\ hookBusy \/ sweep.pc = "tick"
    /\ hook' = IdleHook
    /\ sweep' = IF sweep.pc = "tick" THEN [pc |-> "waiting", rest |-> <<>>] ELSE sweep
    /\ last' = NoEvent
    /\ UNCHANGED <<now, clusters, backups, nextId, cancelled>>

\* getExpiredBackups called on a list of backups, as rotateExpiredBackups does
ExpiryCheck(retention, intervalHours, list) ==
    /\ last' = [op |-> "getExpiredBackups", retention |-> retention,
                intervalHours |-> intervalHours, list |-> list,
                expired |-> getExpiredBackups(retention, intervalHours, list)]
    /\ UNCHANGED <<now, clusters, backups, nextId, hook, sweep, cancelled>>

\* ---------------------------------------------------------- specification
Init ==
    /\ now = 0
    /\ clusters = [c \in {"c1"} |->
                      ReadyCluster([nil |-> FALSE, backupConfig |-> PolicyLocal])]
    /\ backups = [i \in {} |-> Nil]
    /\ nextId = 0
    /\ hook = IdleHook
    /\ sweep = [pc |-> "waiting", rest |-> <<>>]
    /\ cancelled = FALSE
    /\ last = NoEvent

\* the Create hook with every outcome of its calls, on backups a user asked
\* for, while the policy is edited, time passes and the process crashes
Next ==
    \/ \E id \in 1..MaxCreateBackups, getOK, updOK \in BOOLEAN : Create(id, getOK, updOK)
    \/ \E driverOK, getOK \in BOOLEAN : etcdSaveWithBackoff(driverOK, getOK)
    \/ \E outcome \in {"ok"} \cup SaveErrors : ETCDSave(outcome)
    \/ \E updOK \in BOOLEAN : CreateFinish(updOK)
    \/ \E id \in 1..MaxCreateBackups : Updated(id)
    \/ AdvanceClock(MaxCreateTime)
    \/ \E c \in DOMAIN clusters, obj \in CreateClusterObjects : EditCluster(c, obj)
    \/ \E c \in DOMAIN clusters : ManualBackup(c, MaxCreateBackups)
    \/ Crash

Spec == Init /\ [][Next]_vars

\* the Create hook on backups the sweep makes (the sweep's calls succeed) and
\* a user deletes, while the policy is edited, time passes and the process
\* crashes
NextNaming ==
    \/ \E id \in 1..MaxCreateBackups, updOK \in BOOLEAN : Create(id, TRUE, updOK)
    \/ \E driverOK \in BOOLEAN : etcdSaveWithBackoff(driverOK, TRUE)
    \/ \E outcome \in {"ok", "e1"} : ETCDSave(outcome)
    \/ CreateFinish(TRUE)
    \/ SweepTick(TRUE)
    \/ SweepCluster(MaxCreateBackups, NoFault, {})
    \/ \E id \in 1..MaxCreateBackups : UserDelete(id)
    \/ \E id \in 1..MaxCreateBackups : Remove(id, TRUE, TRUE, 1, 0)
    \/ AdvanceClock(MaxCreateTime)
    \/ \E c \in DOMAIN clusters, obj \in CreateClusterObjects : EditCluster(c, obj)
    \/ Crash

SpecNaming == Init /\ [][NextNaming]_vars

\* the sweep with every outcome of its calls, on a cluster whose policy
\* stays, with manual backups; the hooks' calls succeed
NextSweep ==
    \/ \E id \in 1..MaxBackups : Create(id, TRUE, TRUE)
    \/ etcdSaveWithBackoff(TRUE, TRUE)
    \/ ETCDSave("ok")
    \/ CreateFinish(TRUE)
    \/ \E id \in 1..MaxBackups : Remove(id, TRUE, TRUE, 1, 0)
    \/ SweepTick(TRUE)
    \/ \E fault \in ErrFaults, delDone \in SUBSET (1..MaxBackups) :
            SweepCluster(MaxBackups, fault, delDone)
    \/ AdvanceClock(MaxTime)
    \/ \E c \in DOMAIN clusters : ManualBackup(c, MaxBackups)

SpecSweep == Init /\ [][NextSweep]_vars

\* the sweep on a cluster that is edited between eligible and each way of
\* not being eligible; no hook has run on the backups yet
NextEligible ==
    \/ SweepTick(TRUE)
    \/ \E fault \in ErrFaults, delDone \in SUBSET (1..MaxBackups) :
            SweepCluster(MaxBackups, fault, delDone)
    \/ \E c \in DOMAIN clusters, obj \in ClusterObjects : EditCluster(c, obj)
    \/ \E c \in DOMAIN clusters : ManualBackup(c, MaxBackups)
    \/ \E id \in 1..MaxBackups : UserDelete(id)
    \/ \E id \in 1..MaxBackups : Remove(id, TRUE, TRUE, 1, 0)

SpecEligible == Init /\ [][NextEligible]_vars

\* the Remove hook with every outcome of its calls, on backups named under a
\* local or an S3 policy and then deleted by a user
NextRemove ==
    \/ \E id \in 1..MaxCreateBackups : Create(id, TRUE, TRUE)
    \/ etcdSaveWithBackoff(TRUE, TRUE)
    \/ ETCDSave("ok")
    \/ CreateFinish(TRUE)
    \/ \E c \in DOMAIN clusters, obj \in CreateClusterObjects : EditCluster(c, obj)
    \/ \E c \in DOMAIN clusters : ManualBackup(c, MaxCreateBackups)
    \/ \E id \in 1..MaxCreateBackups : UserDelete(id)
    \/ \E id \in 1..MaxCreateBackups, driverOK, getOK \in BOOLEAN,
          snapFirstOK \in 0..BackoffSteps, s3FirstOK \in 0..S3DeleteAttempts :
            Remove(id, driverOK, getOK, snapFirstOK, s3FirstOK)

SpecRemove == Init /\ [][NextRemove]_vars

\* ------------------------------------------------------------ properties
\* C1: a Create invocation on a backup whose persisted Completed condition
\* is True or False returns nil without calling save or Update, and leaves
\* every persisted backup as it was.
TerminalAbsorbing ==
    [][\A id \in DOMAIN backups :
          (/\ backups[id].completed \in {"True", "False"}
           /\ last'.op = "Create"
           /\ last'.id = id)
              => /\ last'.ret = "nil"
                 /\ last'.saves = 0
                 /\ last'.updates = 0
                 /\ backups' = backups]_vars

\* Create has just returned at once on a backup that failed
TerminalReentered ==
    /\ last.op = "Create"
    /\ last.line = 76
    /\ last.saves = 0
    /\ last.id \in DOMAIN backups
    /\ backups[last.id].completed = "False"

\* C2: a backup whose Created condition is not True has no filename and no
\* frozen policy, and once Created=True is persisted no later step (re-entry
\* after a crash or a failed save, policy edits, sweep ticks) changes the
\* persisted filename or frozen policy.
FilenameWrittenOnce ==
    [][\A id \in DOMAIN backups :
          /\ backups[id].created # "True"
                => /\ backups[id].filename = EmptyFilename
                   /\ backups[id].backupConfig = ZeroConfig
          /\ (backups[id].created = "True" /\ id \in DOMAIN backups')
                => /\ backups'[id].filename = backups[id].filename
                   /\ backups'[id].backupConfig = backups[id].backupConfig]_vars

\* Create re-entered a named backup at a later hour, after the cluster's
\* policy was replaced, and went on to save without naming
RenamingSkipped ==
    /\ hook.pc = "save"
    /\ ~hook.named
    /\ hook.id \in DOMAIN backups
    /\ backups[hook.id].created = "True"
    /\ backups[hook.id].filename.ts # now
    /\ clusters[backups[hook.id].clusterID].rkeConfig # Nil
    /\ clusters[backups[hook.id].clusterID].rkeConfig.backupConfig
           # backups[hook.id].backupConfig

\* C3: while the hook is in its save step the persisted backup has
\* Created=True and Completed=Unknown, every ETCDSave call is made for the
\* persisted filename, a crash during the save leaves Created=True and
\* Completed=Unknown persisted, and a Create entered on a backup with
\* Created=True persisted skips naming and writes nothing before saving.
CreatedBeforeSave ==
    [][/\ hook.pc \in {"save", "backoff"}
          => /\ hook.id \in DOMAIN backups
             /\ backups[hook.id].created = "True"
             /\ backups[hook.id].completed = "Unknown"
       /\ hook'.saves > hook.saves
          => /\ backups[hook.id].created = "True"
             /\ hook.snapshot = backups[hook.id].filename
       /\ (hook.pc = "backoff" /\ hook'.pc = "idle")
          => /\ backups'[hook.id].created = "True"
             /\ backups'[hook.id].completed = "Unknown"
             /\ backups'[hook.id].filename = backups[hook.id].filename
       /\ (hook.pc = "idle" /\ hook'.pc # "idle"
             /\ backups[hook'.id].created = "True")
          => /\ ~hook'.named
             /\ hook'.updates = 0
             /\ backups' = backups]_vars

\* a re-entered Create, having skipped naming, is saving under the persisted
\* filename
FreshSaveAfterReentry ==
    /\ hook.pc = "backoff"
    /\ ~hook.named
    /\ hook.saves > 0
    /\ backups[hook.id].created = "True"
    /\ backups[hook.id].completed = "Unknown"
    /\ hook.snapshot = backups[hook.id].filename

\* C4 as stated: when Create returns after calling ETCDSave, a save that
\* succeeded leaves Completed=True persisted and nil returned, a save that
\* failed on every attempt leaves Completed=False with the last error's
\* message persisted and an error returned.
SaveOutcomeRecorded ==
    (last.op = "Create" /\ last.saves > 0)
        => IF last.inErr = ""
           THEN /\ backups[last.id].completed = "True"
                /\ last.ret = "nil"
           ELSE /\ last.saves = 5
                /\ backups[last.id].completed = "False"
                /\ backups[last.id].message = last.inErr
                /\ last.ret # "nil"

\* C4, amended: the same provided the Update that stores the save result
\* succeeds; when that Update fails Create returns the Update's error and
\* the persisted Completed condition is still Unknown.
SaveOutcomeRecordedWhenStored ==
    (last.op = "Create" /\ last.saves > 0)
        => IF last.ret = "err:update"
           THEN backups[last.id].completed = "Unknown"
           ELSE IF last.inErr = ""
           THEN /\ backups[last.id].completed = "True"
                /\ last.ret = "nil"
           ELSE /\ last.saves = 5
                /\ backups[last.id].completed = "False"
                /\ backups[last.id].message = last.inErr
                /\ last.ret # "nil"

\* Create has just returned the save error after five failed attempts, the
\* failure persisted
SaveExhausted ==
    /\ last.op = "Create"
    /\ last.saves = 5
    /\ last.inErr = "e2"
    /\ last.ret = "err:save"
    /\ backups[last.id].completed = "False"
    /\ backups[last.id].message = "e2"

\* C5: one Create invocation calls ETCDSave at most 5 times and never after
\* an attempt succeeded, having waited 1, 2, 4, 8 seconds between attempts;
\* when attempts 1-4 fail and the 5th succeeds the hook ends the save with
\* Completed=True after 15 seconds of waiting.
BackoffBounded ==
    /\ hook.saves <= 5
    /\ hook.saves >= 1 => hook.slept = <<0, 1, 3, 7, 15>>[hook.saves]
    /\ (hook.pc = "backoff" /\ hook.saves >= 1) => hook.inErr # ""
    /\ (hook.pc = "update" /\ hook.saves = 5 /\ hook.inErr = "")
          => hook.b.completed = "True" /\ hook.slept = 15
    /\ last.op = "Create" => last.saves <= 5 /\ last.slept <= 15

\* the fifth attempt has just succeeded
FifthAttemptSucceeded ==
    /\ hook.pc = "update"
    /\ hook.saves = 5
    /\ hook.inErr = ""
    /\ hook.slept = 15
    /\ hook.b.completed = "True"

\* the step is one doClusterBackupSync call of the tick in progress, made
\* for the cluster object at the head of the tick's list
syncStep ==
    /\ sweep.pc = "tick"
    /\ sweep' # sweep
    /\ last'.op = "doClusterBackupSync"

\* the non-manual backups cluster c has in the store
scheduledOf(c) ==
    {id \in DOMAIN backups : backups[id].clusterID = c /\ ~backups[id].manual}

\* cluster c has no non-manual backup, or the latest Completed time among
\* them (none at all counting as the zero time) is more than intervalHours ago
dueAmongScheduled(c, intervalHours) ==
    LET stamped == {id \in scheduledOf(c) : backups[id].completedTS # NoTimestamp}
    IN  \/ scheduledOf(c) = {}
        \/ stamped = {}
        \/ \A id \in stamped : now - backups[id].completedTS > intervalHours

\* C6: a doClusterBackupSync call for a cluster the tick listed with no
\* backup policy, with recurring backups not enabled, not ready or being
\* deleted creates no backup object and marks none for deletion.
IneligibleUntouched ==
    [][(/\ syncStep
        /\ LET obj == Head(sweep.rest).obj
           IN  \/ obj.rkeConfig = Nil
               \/ obj.rkeConfig.backupConfig = Nil
               \/ obj.rkeConfig.backupConfig.enabled # "true"
               \/ ~obj.ready
               \/ obj.deleting)
          => /\ backups' = backups
             /\ nextId' = nextId
             /\ last'.createCalls = 0
             /\ last'.deleted = {}]_vars

\* the sweep has just skipped a cluster that is not ready and has a
\* scheduled backup without a Completed time
UnreadySkipped ==
    /\ last.op = "doClusterBackupSync"
    /\ last.skipped
    /\ ~last.obj.ready
    /\ \E id \in scheduledOf(last.cluster) :
          ~backups[id].deleting /\ backups[id].completedTS = NoTimestamp

\* C7 as stated: a doClusterBackupSync call for an eligible cluster creates
\* exactly one new non-manual backup when the cluster has no non-manual
\* backup or the latest Completed time among them is more than intervalHours
\* ago, and none otherwise.
SweepCreatesWhenDue ==
    [][syncStep
          => LET c == Head(sweep.rest).name
                 policy == Head(sweep.rest).obj.rkeConfig.backupConfig
                 new == DOMAIN backups' \ DOMAIN backups
             IN  IF dueAmongScheduled(c, policy.intervalHours)
                 THEN /\ Cardinality(new) = 1
                      /\ \A id \in new :
                            ~backups'[id].manual /\ backups'[id].clusterID = c
                 ELSE new = {}]_vars

\* C7, amended: the same provided the call's listing of the cluster's backups
\* and its create request succeed; when either fails the call creates
\* nothing; in every case it creates at most one backup, non-manual and of
\* that cluster.
SweepCreatesWhenDueAndCallsSucceed ==
    [][syncStep
          => LET c == Head(sweep.rest).name
                 policy == Head(sweep.rest).obj.rkeConfig.backupConfig
                 new == DOMAIN backups' \ DOMAIN backups
                 callsOK == last'.listed /\ ~(last'.createCalls = 1 /\ last'.created = {})
             IN  /\ Cardinality(new) <= 1
                 /\ \A id \in new :
                       ~backups'[id].manual /\ backups'[id].clusterID = c
                 /\ callsOK => (new # {} <=> dueAmongScheduled(c, policy.intervalHours))
                 /\ ~callsOK => new = {}]_vars

\* the sweep has just created a backup because the newest scheduled backup
\* completed more than intervalHours ago
CreatedWhenIntervalElapsed ==
    /\ last.op = "doClusterBackupSync"
    /\ last.due
    /\ last.newest # ZeroTime
    /\ now - last.newest > last.obj.rkeConfig.backupConfig.intervalHours
    /\ last.created # {}
    /\ \A id \in last.created : id \in DOMAIN backups /\ ~backups[id].manual

\* C8: a doClusterBackupSync call leaves every manual backup in the store
\* as it was, creates only backups with manual=false, and decides whether to
\* create from the cluster's non-manual backups alone.
ManualNeverSwept ==
    [][syncStep
          => LET c == Head(sweep.rest).name
                 policy == Head(sweep.rest).obj.rkeConfig.backupConfig
             IN  /\ \A id \in DOMAIN backups :
                       backups[id].manual
                          => id \in DOMAIN backups' /\ backups'[id] = backups[id]
                 /\ \A id \in DOMAIN backups' \ DOMAIN backups : ~backups'[id].manual
                 /\ last'.listed
                       => (last'.createCalls = 1
                             <=> dueAmongScheduled(c, policy.intervalHours))]_vars

\* rotation has just run while a manual backup older than the retention
\* window is in the store, not marked for deletion
AgedManualKept ==
    /\ last.op = "doClusterBackupSync"
    /\ last.rotated
    /\ \E id \in DOMAIN backups :
          /\ backups[id].manual
          /\ backups[id].clusterID = last.cluster
          /\ backups[id].completedTS # NoTimestamp
          /\ now - backups[id].completedTS
                > last.obj.rkeConfig.backupConfig.retention
                    * last.obj.rkeConfig.backupConfig.intervalHours
          /\ ~backups[id].deleting

\* C9: a Remove invocation returns nil and lets the object leave the store,
\* after at most 5 removeSnapshot calls and at most 3 remote deletes, none
\* when the backup's frozen policy has no S3 target.
RemoveNeverBlocks ==
    [][\A id \in DOMAIN backups :
          (last'.op = "Remove" /\ last'.id = id)
              => /\ last'.ret = "nil"
                 /\ id \notin DOMAIN backups'
                 /\ last'.snapCalls <= 5
                 /\ last'.s3Calls <= 3
                 /\ backups[id].backupConfig.s3 = Nil => last'.s3Calls = 0]_vars

\* Remove has just returned nil although every removeSnapshot call and
\* every remote delete failed
RemoveAfterAllFailed ==
    /\ last.op = "Remove"
    /\ last.snapCalls = 5
    /\ last.snapErr # ""
    /\ last.s3Calls = 3
    /\ last.delErr
    /\ last.ret = "nil"
    /\ last.id \notin DOMAIN backups

\* C10: a Create invocation on a backup that is not terminal, whose cluster
\* has no backup policy, returns an error in its first step with no ETCDSave
\* call and no Update, the store unchanged; with a policy present the
\* invocation does not return the configuration error.
NoPolicyNoSave ==
    [][\A id \in DOMAIN backups :
          (/\ hook.pc = "idle"
           /\ backups[id].completed \notin {"True", "False"}
           /\ \/ hook'.pc # "idle" /\ hook'.id = id
              \/ last'.op = "Create" /\ last'.id = id)
              => LET rke == clusters[backups[id].clusterID].rkeConfig
                 IN  IF rke = Nil \/ rke.backupConfig = Nil
                     THEN /\ hook'.pc = "idle"
                          /\ last'.op = "Create"
                          /\ last'.ret # "nil"
                          /\ last'.saves = 0
                          /\ last'.updates = 0
                          /\ backups' = backups
                     ELSE last'.op = "Create" => last'.ret # "err:noconfig"]_vars

\* Create has just returned the configuration error on a backup that is
\* still unnamed
ConfigErrorReturned ==
    /\ last.op = "Create"
    /\ last.ret = "err:noconfig"
    /\ last.saves = 0
    /\ last.updates = 0
    /\ backups[last.id].created # "True"
    /\ backups[last.id].filename = EmptyFilename

\* C11: a cluster never has more than one non-manual backup that is in the
\* store, not marked for deletion, and whose Completed condition is Unknown
\* or not yet set.
NoDuplicatePending ==
    \A c \in DOMAIN clusters :
        Cardinality({id \in scheduledOf(c) :
                        /\ ~backups[id].deleting
                        /\ backups[id].completed \in {"", "Unknown"}}) <= 1

\* C12: a doClusterBackupSync call marks no backup for deletion whose
\* Completed condition is Unknown or absent.
RotationSparesUnfinished ==
    [][syncStep
          => \A id \in DOMAIN backups :
                (~backups[id].deleting /\ backups[id].completed \in {"", "Unknown"})
                    => ~backups'[id].deleting]_vars

\* the cluster has no non-manual backup with Completed=True, or the latest
\* of them completed more than intervalHours ago
dueSinceSuccess(c, intervalHours) ==
    \A id \in scheduledOf(c) :
        backups[id].completed = "True" => now - backups[id].completedTS > intervalHours

\* C13: a doClusterBackupSync call that listed at least one non-manual
\* backup of an eligible cluster asks for a new backup exactly when the time
\* since the most recent backup with Completed=True exceeds intervalHours;
\* backups with Completed=False do not count (stated for a cluster whose
\* listed backups have all ended their save).
DueSinceLastSuccess ==
    [][(/\ syncStep
        /\ last'.listed
        /\ scheduledOf(Head(sweep.rest).name) # {}
        /\ \A id \in scheduledOf(Head(sweep.rest).name) :
              backups[id].completed \in {"True", "False"})
          => (last'.createCalls = 1
                <=> dueSinceSuccess(Head(sweep.rest).name,
                        Head(sweep.rest).obj.rkeConfig.backupConfig.intervalHours))]_vars

\* C15: the persisted Completed condition of a backup becomes False only in
\* the return of a Create invocation that called ETCDSave 5 times.
FalseOnlyByExhaustion ==
    [][\A id \in DOMAIN backups :
          (/\ id \in DOMAIN backups'
           /\ backups[id].completed # "False"
           /\ backups'[id].completed = "False")
              => /\ last'.op = "Create"
                 /\ last'.id = id
                 /\ last'.saves = 5]_vars

\* a scheduled backup whose save succeeded at hour ts (NoTimestamp: no
\* Completed condition yet)
ExpiryBackup(ts) ==
    IF ts = NoTimestamp THEN createNewBackup("c1")
    ELSE [createNewBackup("c1") EXCEPT
            !.created = "True", !.completed = "True", !.completedTS = ts,
            !.backupConfig = PolicyLocal,
            !.filename = [empty |-> FALSE, name |-> 0, ts |-> ts, sep |-> ":",
                          ext |-> "zip", url |-> <<>>]]

\* the hours at which the backups of the expiry check completed: 100, 73,
\* 72, 71, 50 and 1 hours before hour 100, or not at all
ExpiryStamps == {NoTimestamp, 0, 27, 28, 29, 50, 99}

\* (retention, intervalHours) pairs of the expiry check
ExpiryPolicies == {<<3, 24>>, <<1, 1>>, <<1, 72>>, <<2, 25>>}

\* at hour 100, a store of up to MaxBackups scheduled backups of cluster c1
InitExpiry ==
    /\ now = 100
    /\ clusters = [c \in {"c1"} |->
                      ReadyCluster([nil |-> FALSE, backupConfig |-> PolicyLocal])]
    /\ \E n \in 0..MaxBackups :
          /\ backups \in [1..n -> {ExpiryBackup(ts) : ts \in ExpiryStamps}]
          /\ nextId = n
    /\ hook = IdleHook
    /\ sweep = [pc |-> "waiting", rest |-> <<>>]
    /\ cancelled = FALSE
    /\ last = NoEvent

\* getExpiredBackups on every sublist of the store, under each policy, as
\* time passes
NextExpiry ==
    \/ \E p \in ExpiryPolicies, list \in SUBSET DOMAIN backups :
            ExpiryCheck(p[1], p[2], list)
    \/ AdvanceClock(100 + MaxTime)

SpecExpiry == InitExpiry /\ [][NextExpiry]_vars

\* C14: getExpiredBackups returns exactly the backups of its list whose age,
\* now minus the Completed timestamp (the zero time when there is none), is
\* strictly greater than retention * intervalHours, whatever the length of
\* the list; with retention 3 and intervalHours 24 a backup completed 100
\* hours ago is returned, one completed 50 or exactly 72 hours ago is not.
ExpiryIsWindow ==
    last.op = "getExpiredBackups"
        => /\ last.expired =
                 {id \in last.list :
                     \/ backups[id].completedTS = NoTimestamp
                     \/ now - backups[id].completedTS
                            > last.retention * last.intervalHours}
           /\ (last.retention = 3 /\ last.intervalHours = 24)
                 => \A id \in last.list :
                       /\ now - backups[id].completedTS = 100 => id \in last.expired
                       /\ now - backups[id].completedTS = 50 => id \notin last.expired
                       /\ now - backups[id].completedTS = 72 => id \notin last.expired

\* under retention 3 and intervalHours 24, a backup completed 100 hours ago
\* was returned and one completed exactly 72 hours ago was not
ExpiryBoundaryChecked ==
    /\ last.op = "getExpiredBackups"
    /\ last.retention = 3
    /\ last.intervalHours = 24
    /\ \E i, j \in last.list :
          /\ now - backups[i].completedTS = 100
          /\ i \in last.expired
          /\ now - backups[j].completedTS = 72
          /\ j \notin last.expired

\* backup id has no Completed timestamp, or one older than the retention
\* window of the policy
expiredUnder(id, policy) ==
    \/ backups[id].completedTS = NoTimestamp
    \/ now - backups[id].completedTS > policy.retention * policy.intervalHours

\* C16 as stated: a doClusterBackupSync call for an eligible cluster with at
\* least one non-manual backup runs rotation whether or not a backup was
\* due, and rotation issues a delete for every expired non-manual backup of
\* the list.
RotationAlwaysRuns ==
    [][(syncStep /\ scheduledOf(Head(sweep.rest).name) # {})
          => /\ last'.rotated
             /\ \A id \in scheduledOf(Head(sweep.rest).name) :
                   expiredUnder(id, Head(sweep.rest).obj.rkeConfig.backupConfig)
                       => backups'[id].deleting]_vars

\* C16, amended: when the call's listing succeeds and its create request,
\* if one is made, succeeds, rotation runs whether or not a backup was due,
\* after the create-or-skip step (the backup just created is not rotated),
\* marks only expired non-manual backups of the list, and marks every one
\* of them unless a delete fails; when the listing or the create request
\* fails, rotation does not run and nothing is marked for deletion.
RotationRunsUnlessCallFails ==
    [][(syncStep /\ scheduledOf(Head(sweep.rest).name) # {})
          => LET c == Head(sweep.rest).name
                 policy == Head(sweep.rest).obj.rkeConfig.backupConfig
                 createFailed == last'.createCalls = 1 /\ last'.created = {}
                 marked == {id \in DOMAIN backups :
                               backups'[id].deleting /\ ~backups[id].deleting}
             IN  IF ~last'.listed \/ createFailed
                 THEN ~last'.rotated /\ marked = {} /\ DOMAIN backups' = DOMAIN backups
                 ELSE /\ last'.rotated
                      /\ \A id \in DOMAIN backups' \ DOMAIN backups :
                            ~backups'[id].deleting
                      /\ \A id \in marked :
                            id \in scheduledOf(c) /\ expiredUnder(id, policy)
                      /\ last'.ret = "nil"
                            => \A id \in scheduledOf(c) :
                                  expiredUnder(id, policy) => backups'[id].deleting]_vars

\* one call has just created a backup and then marked an expired one for
\* deletion, leaving the new one alone
RotatedAfterCreate ==
    /\ last.op = "doClusterBackupSync"
    /\ last.ret = "nil"
    /\ last.created # {}
    /\ last.deleted # {}
    /\ \A id \in last.deleted : id \in DOMAIN backups /\ backups[id].deleting
    /\ \A id \in last.created : id \in DOMAIN backups /\ ~backups[id].deleting

\* two eligible clusters, no backups yet
InitTwoClusters ==
    /\ now = 0
    /\ clusters = [c \in {"c1", "c2"} |->
                      ReadyCluster([nil |-> FALSE, backupConfig |-> PolicyLocal])]
    /\ backups = [i \in {} |-> Nil]
    /\ nextId = 0
    /\ hook = IdleHook
    /\ sweep = [pc |-> "waiting", rest |-> <<>>]
    /\ cancelled = FALSE
    /\ last = NoEvent

\* the sweep over two clusters with every outcome of its calls, conflicts
\* included, while the backups it marks for deletion leave the store
NextIsolation ==
    \/ SweepTick(TRUE)
    \/ \E fault \in Faults, delDone \in SUBSET (1..(MaxBackups + 1)) :
            SweepCluster(MaxBackups + 1, fault, delDone)
    \/ \E id \in 1..(MaxBackups + 1) : Remove(id, TRUE, TRUE, 1, 0)
    \/ AdvanceClock(MaxTime)

SpecIsolation == InitTwoClusters /\ [][NextIsolation]_vars

\* C17: when doClusterBackupSync returns an error for a cluster of the
\* tick's list, a conflict or any other, the loop does not exit: it stands at
\* the next cluster of the list with the rest of the list intact, or, after
\* the last cluster, waits for the next tick.
FailureIsolated ==
    [][/\ sweep'.pc # "exited"
       /\ (syncStep /\ last'.ret # "nil")
             => /\ sweep'.rest = Tail(sweep.rest)
                /\ sweep'.pc = IF Tail(sweep.rest) = <<>> THEN "waiting" ELSE "tick"]_vars

\* the last cluster of a tick's list has just got its first backup although
\* an eligible cluster before it in the list still has none: that cluster's
\* processing failed in this tick
ServedAfterFailure ==
    /\ last.op = "doClusterBackupSync"
    /\ last.created # {}
    /\ sweep.pc = "waiting"
    /\ \E c \in DOMAIN clusters :
          /\ c # last.cluster
          /\ scheduledOf(c) = {}
          /\ nextId = 1

\* the sweep loop with every outcome of its calls, the listing of the
\* clusters included, until the context is cancelled
NextExit ==
    \/ \E listOK \in BOOLEAN : SweepTick(listOK)
    \/ \E fault \in ErrFaults, delDone \in SUBSET (1..MaxBackups) :
            SweepCluster(MaxBackups, fault, delDone)
    \/ SweepCancelled
    \/ Cancel
    \/ \E id \in 1..MaxBackups : Remove(id, TRUE, TRUE, 1, 0)
    \/ AdvanceClock(MaxTime)

\* every call made for a cluster of the tick returns, so the loop over the
\* tick's list goes on; a select with a closed ctx.Done() takes that case
\* sooner or later, however often the ticker is ready as well
FairExit ==
    /\ WF_vars(\E fault \in ErrFaults, delDone \in SUBSET (1..MaxBackups) :
                    SweepCluster(MaxBackups, fault, delDone))
    /\ SF_vars(SweepCancelled)

SpecExit == Init /\ [][NextExit]_vars /\ FairExit

\* C18: the sweep loop exits only from the select, either with the context
\* cancelled and nil returned or with the error of a failed cluster listing
\* returned; once the context is cancelled the loop eventually exits; after
\* it has exited it stays exited, processes no cluster, creates no backup
\* and marks none for deletion.
SweepExit ==
    /\ [][(sweep.pc # "exited" /\ sweep'.pc = "exited")
             => /\ sweep.pc = "waiting"
                /\ last'.op = "clusterBackupSync"
                /\ \/ cancelled /\ last'.ret = "nil"
                   \/ last'.ret = "err:list"]_vars
    /\ [][sweep.pc = "exited"
             => /\ sweep' = sweep
                /\ last'.op # "doClusterBackupSync"
                /\ nextId' = nextId
                /\ \A id \in DOMAIN backups' :
                      /\ id \in DOMAIN backups
                      /\ backups'[id].deleting = backups[id].deleting]_vars
    /\ cancelled ~> sweep.pc = "exited"

\* the loop has just returned nil on cancellation, after it had created
\* backups
ExitedOnCancel ==
    /\ sweep.pc = "exited"
    /\ cancelled
    /\ last.op = "clusterBackupSync"
    /\ last.ret = "nil"
    /\ DOMAIN backups # {}

\* C19: every persisted backup whose Completed condition is True or False
\* has Created=True, a filename and a frozen policy.
ConditionsOrdered ==
    \A id \in DOMAIN backups :
        backups[id].completed \in {"True", "False"}
            => /\ backups[id].created = "True"
               /\ backups[id].filename # EmptyFilename
               /\ backups[id].backupConfig # ZeroConfig
               /\ backups[id].backupConfig # Nil

\* a backup is persisted with Completed=True, named under the S3 policy
TerminalAfterNaming ==
    \E id \in DOMAIN backups :
        /\ backups[id].completed = "True"
        /\ backups[id].created = "True"
        /\ backups[id].backupConfig = PolicyS3
        /\ backups[id].filename # EmptyFilename

\* the Create hook on backups of a cluster that keeps its policy; cluster
\* lookups, driver lookups and Updates may fail until hour MaxCreateTime and
\* succeed from then on; a save may fail at any time
NextLive ==
    \/ \E id \in 1..MaxCreateBackups, getOK, updOK \in BOOLEAN :
            /\ now < MaxCreateTime \/ (getOK /\ updOK)
            /\ Create(id, getOK, updOK)
    \/ \E driverOK, getOK \in BOOLEAN :
            /\ now < MaxCreateTime \/ (driverOK /\ getOK)
            /\ etcdSaveWithBackoff(driverOK, getOK)
    \/ \E outcome \in {"ok"} \cup SaveErrors : ETCDSave(outcome)
    \/ \E updOK \in BOOLEAN :
            /\ now < MaxCreateTime \/ updOK
            /\ CreateFinish(updOK)
    \/ AdvanceClock(MaxCreateTime)
    \/ \E c \in DOMAIN clusters : ManualBackup(c, MaxCreateBackups)

\* the runtime invokes Create again for every backup, whatever the hook
\* returned; every call the hook makes returns; time passes
FairLive ==
    /\ \A id \in 1..MaxCreateBackups : SF_vars(Create(id, TRUE, TRUE))
    /\ WF_vars(etcdSaveWithBackoff(TRUE, TRUE))
    /\ WF_vars(\E outcome \in {"ok"} \cup SaveErrors : ETCDSave(outcome))
    /\ WF_vars(CreateFinish(TRUE))
    /\ WF_vars(AdvanceClock(MaxCreateTime))

SpecLive == Init /\ [][NextLive]_vars /\ FairLive

\* C20: every backup in the store, of a cluster that has a backup policy,
\* eventually has Completed=True or Completed=False persisted, when Create
\* is invoked again after every return and the lookups and Updates succeed
\* from some time on.
EventuallyTerminal ==
    \A id \in 1..MaxCreateBackups :
        (id \in DOMAIN backups)
            ~> (id \in DOMAIN backups /\ backups[id].completed \in {"True", "False"})

\* once the lookups and Updates succeed, an invocation that found the
\* backup already named has just made it terminal
TerminalOnReinvocation ==
    /\ now = MaxCreateTime
    /\ last.op = "Create"
    /\ ~last.named
    /\ last.saves > 0
    /\ last.ret = "nil"
    /\ backups[last.id].completed = "True"

====
